---- MODULE Spec2Model ----
(***************************************************************************)
(* Model of atomai/utils/preproc.py: the class counter, the two rank       *)
(* normalizers, the batcher and the image preprocessing pipeline.          *)
(*                                                                         *)
(* A numpy array is a record [type, shape, data]: shape is the tuple of    *)
(* axis sizes and data the sequence of its entries along axis 0, each      *)
(* entry standing for the whole sub-array at that index (for a label       *)
(* array the entry is the label value that sub-array holds).  A value      *)
(* that is not an ndarray (a Python list, say) has type "list".            *)
(*                                                                         *)
(* Every function is an operator that returns an outcome record            *)
(* [raised, ret, warned, called]: the exception raised ("none" when it     *)
(* returns), the tuple of returned values (empty when it raises), the      *)
(* warnings issued in order, and the functions entered, in order.          *)
(***************************************************************************)
EXTENDS Integers, Sequences, FiniteSets, TLC

VARIABLES X_train, y_train, X_test, y_test, batch_size, num_classes,
          pc, ncalls, raised, ret, warned, called

vars == <<X_train, y_train, X_test, y_test, batch_size, num_classes,
          pc, ncalls, raised, ret, warned, called>>

(* ------------------------------ bounds --------------------------------- *)
MaxN == 4
MaxLabels == 3
MaxVal == 2
MaxBatch == 4
MaxRank == 5
MaxClasses == 3
MaxCalls == 2

Vals == (-1)..MaxVal
Ranks == 1..MaxRank
ImageRanks == {3, 4}

(* ------------------------------ arrays --------------------------------- *)
TailDims(r) == [i \in 1..(r - 1) |-> i + 1]

Arr(r, data) ==
    [type |-> "ndarray", shape |-> <<Len(data)>> \o TailDims(r), data |-> data]

Ids(n) == [i \in 1..n |-> i]

Const(n, v) == [i \in 1..n |-> v]

SeqsUpTo(S, n) == UNION {[1..k -> S] : k \in 0..n}

NonDecreasing(s) == \A i \in 1..(Len(s) - 1) : s[i] <= s[i + 1]

ndim(a) == Len(a.shape)

isinstance_ndarray(a) == a.type = "ndarray"

Min2(x, y) == IF x <= y THEN x ELSE y

newaxis(a) ==
    [a EXCEPT !.shape = <<Head(a.shape)>> \o <<1>> \o Tail(a.shape)]

expand_dims(a, axis) ==
    [a EXCEPT !.shape = SubSeq(a.shape, 1, axis) \o <<1>>
                          \o SubSeq(a.shape, axis + 1, Len(a.shape))]

slice(a, m) ==
    LET k == Min2(m, a.shape[1])
    IN  [a EXCEPT !.shape = <<k>> \o Tail(a.shape),
                  !.data = SubSeq(a.data, 1, k)]

RECURSIVE SortedSeq(_)
SortedSeq(S) ==
    IF S = {} THEN <<>>
    ELSE LET m == CHOOSE x \in S : \A y \in S : x <= y
         IN  <<m>> \o SortedSeq(S \ {m})

unique(a) == SortedSeq({a.data[i] : i \in 1..Len(a.data)})

min(s) == CHOOSE x \in {s[i] : i \in 1..Len(s)} :
              \A j \in 1..Len(s) : x <= s[j]

(* ----------------------------- outcomes -------------------------------- *)
Return(v, w, c) == [raised |-> "none", ret |-> v, warned |-> w, called |-> c]

Raise(e, w, c) == [raised |-> e, ret |-> <<>>, warned |-> w, called |-> c]

(* ------------------------ num_classes_from_labels ---------------------- *)
(* faulty variant: the binary case is not reduced to one class *)
num_classes_from_labels_nohalve(labels) ==
    LET uval == unique(labels)
        c == <<"num_classes_from_labels">>
    IN  IF uval = <<>> THEN Raise("ValueError", <<>>, c)
        ELSE IF min(uval) # 0 THEN Raise("AssertionError", <<>>, c)
        ELSE IF \E i \in 1..(Len(uval) - 1) : uval[i + 1] - uval[i] # 1
             THEN Raise("AssertionError", <<>>, c)
        ELSE Return(<<Len(uval)>>, <<>>, c)

(* faulty variant: the minimum is not compared with 0 *)
num_classes_from_labels_nomin(labels) ==
    LET uval == unique(labels)
        c == <<"num_classes_from_labels">>
    IN  IF uval = <<>> THEN Raise("ValueError", <<>>, c)
        ELSE IF \E i \in 1..(Len(uval) - 1) : uval[i + 1] - uval[i] # 1
             THEN Raise("AssertionError", <<>>, c)
        ELSE LET n == Len(uval)
             IN  Return(<<IF n = 2 THEN n - 1 ELSE n>>, <<>>, c)

num_classes_from_labels(labels) ==
    LET uval == unique(labels)
        c == <<"num_classes_from_labels">>
    IN  IF uval = <<>> THEN Raise("ValueError", <<>>, c)
        ELSE IF min(uval) # 0 THEN Raise("AssertionError", <<>>, c)
        ELSE IF \E i \in 1..(Len(uval) - 1) : uval[i + 1] - uval[i] # 1
             THEN Raise("AssertionError", <<>>, c)
        ELSE LET n == Len(uval)
             IN  Return(<<IF n = 2 THEN n - 1 ELSE n>>, <<>>, c)

(* --------------------------- check_image_dims -------------------------- *)
(* faulty variant: rank-3 labels are expanded whatever the class count *)
check_image_dims_anyclass(Xtr, ytr, Xte, yte, nc) ==
    LET c1 == ndim(Xtr) = 3
        c2 == ndim(Xte) = 3
        c3 == ndim(ytr) = 3
        c4 == ndim(yte) = 3
    IN  Return(<<IF c1 THEN newaxis(Xtr) ELSE Xtr,
                 IF c3 THEN newaxis(ytr) ELSE ytr,
                 IF c2 THEN newaxis(Xte) ELSE Xte,
                 IF c4 THEN newaxis(yte) ELSE yte>>,
               <<>>, <<"check_image_dims">>)

(* faulty variant: the channel axis is appended as the last axis *)
check_image_dims_lastaxis(Xtr, ytr, Xte, yte, nc) ==
    LET c1 == ndim(Xtr) = 3
        c2 == ndim(Xte) = 3
        c3 == nc = 1 /\ ndim(ytr) = 3
        c4 == nc = 1 /\ ndim(yte) = 3
    IN  Return(<<IF c1 THEN expand_dims(Xtr, ndim(Xtr)) ELSE Xtr,
                 IF c3 THEN expand_dims(ytr, ndim(ytr)) ELSE ytr,
                 IF c2 THEN expand_dims(Xte, ndim(Xte)) ELSE Xte,
                 IF c4 THEN expand_dims(yte, ndim(yte)) ELSE yte>>,
               <<>>, <<"check_image_dims">>)

check_image_dims(Xtr, ytr, Xte, yte, nc) ==
    LET c1 == ndim(Xtr) = 3
        c2 == ndim(Xte) = 3
        c3 == nc = 1 /\ ndim(ytr) = 3
        c4 == nc = 1 /\ ndim(yte) = 3
        w1 == IF c1 THEN <<"Adding a channel dimension of 1 to training images">>
              ELSE <<>>
        w2 == IF c2 THEN <<"Adding a channel dimension of 1 to test images">>
              ELSE <<>>
        w3 == IF c3 THEN <<"Adding a channel dimension of 1 to training labels">>
              ELSE <<>>
        w4 == IF c4 THEN <<"Adding a channel dimension of 1 to test labels">>
              ELSE <<>>
    IN  Return(<<IF c1 THEN newaxis(Xtr) ELSE Xtr,
                 IF c3 THEN newaxis(ytr) ELSE ytr,
                 IF c2 THEN newaxis(Xte) ELSE Xte,
                 IF c4 THEN newaxis(yte) ELSE yte>>,
               w1 \o w2 \o w3 \o w4, <<"check_image_dims">>)

(* --------------------------- check_signal_dims ------------------------- *)
(* faulty variant: the test pair is ruled by its own rank comparison *)
check_signal_dims_ownpair(Xtr, ytr, Xte, yte) ==
    LET Pair(X, y) ==
            IF ndim(X) > ndim(y)
            THEN <<IF ndim(X) = 3 THEN expand_dims(X, 1) ELSE X,
                   IF ndim(y) = 2 THEN expand_dims(y, 1) ELSE y>>
            ELSE IF ndim(X) < ndim(y)
            THEN <<IF ndim(X) = 2 THEN expand_dims(X, 1) ELSE X,
                   IF ndim(y) = 3 THEN expand_dims(y, 1) ELSE y>>
            ELSE <<X, y>>
    IN  Return(Pair(Xtr, ytr) \o Pair(Xte, yte), <<>>, <<"check_signal_dims">>)

check_signal_dims(Xtr, ytr, Xte, yte) ==
    LET Insert(xr, yr) ==
            LET c1 == ndim(Xtr) = xr
                c2 == ndim(Xte) = xr
                c3 == ndim(ytr) = yr
                c4 == ndim(yte) = yr
                w1 == IF c1
                      THEN <<"Adding a channel dimension of 1 to training images">>
                      ELSE <<>>
                w2 == IF c2
                      THEN <<"Adding a channel dimension of 1 to test images">>
                      ELSE <<>>
                w3 == IF c3
                      THEN <<"Adding a channel dimension of 1 to training spectra">>
                      ELSE <<>>
                w4 == IF c4
                      THEN <<"Adding a channel dimension of 1 to test spectra">>
                      ELSE <<>>
            IN  Return(<<IF c1 THEN expand_dims(Xtr, 1) ELSE Xtr,
                         IF c3 THEN expand_dims(ytr, 1) ELSE ytr,
                         IF c2 THEN expand_dims(Xte, 1) ELSE Xte,
                         IF c4 THEN expand_dims(yte, 1) ELSE yte>>,
                       w1 \o w2 \o w3 \o w4, <<"check_signal_dims">>)
    IN  IF ndim(Xtr) > ndim(ytr) THEN Insert(3, 2)
        ELSE IF ndim(Xtr) < ndim(ytr) THEN Insert(2, 3)
        ELSE Return(<<Xtr, ytr, Xte, yte>>, <<>>, <<"check_signal_dims">>)

(* ------------------------------ ndarray2list --------------------------- *)
np_split(ary, sections) ==
    LET N == ary.shape[1]
    IN  IF sections <= 0 THEN Raise("ValueError", <<>>, <<>>)
        ELSE IF N % sections # 0 THEN Raise("ValueError", <<>>, <<>>)
        ELSE LET each == N \div sections
             IN  Return([j \in 1..sections |->
                            [ary EXCEPT
                               !.shape = <<each>> \o Tail(ary.shape),
                               !.data = SubSeq(ary.data, (j - 1) * each + 1,
                                               j * each)]],
                        <<>>, <<>>)

(* faulty variant: labels are truncated to their last samples *)
slice_tail(a, m) ==
    LET k == Min2(m, a.shape[1])
    IN  [a EXCEPT !.shape = <<k>> \o Tail(a.shape),
                  !.data = SubSeq(a.data, a.shape[1] - k + 1, a.shape[1])]

ndarray2list_tail(Xtr, ytr, Xte, yte, bs) ==
    LET n_train_batches == Xtr.shape[1] \div bs
        n_test_batches == Xte.shape[1] \div bs
        s1 == np_split(slice(Xtr, n_train_batches * bs), n_train_batches)
        s2 == np_split(slice_tail(ytr, n_train_batches * bs), n_train_batches)
        s3 == np_split(slice(Xte, n_test_batches * bs), n_test_batches)
        s4 == np_split(slice_tail(yte, n_test_batches * bs), n_test_batches)
        c == <<"ndarray2list">>
    IN  IF s1.raised # "none" THEN Raise(s1.raised, <<>>, c)
        ELSE IF s2.raised # "none" THEN Raise(s2.raised, <<>>, c)
        ELSE IF s3.raised # "none" THEN Raise(s3.raised, <<>>, c)
        ELSE IF s4.raised # "none" THEN Raise(s4.raised, <<>>, c)
        ELSE Return(<<s1.ret, s2.ret, s3.ret, s4.ret>>, <<>>, c)

ndarray2list(Xtr, ytr, Xte, yte, bs) ==
    LET n_train_batches == Xtr.shape[1] \div bs
        n_test_batches == Xte.shape[1] \div bs
        s1 == np_split(slice(Xtr, n_train_batches * bs), n_train_batches)
        s2 == np_split(slice(ytr, n_train_batches * bs), n_train_batches)
        s3 == np_split(slice(Xte, n_test_batches * bs), n_test_batches)
        s4 == np_split(slice(yte, n_test_batches * bs), n_test_batches)
        c == <<"ndarray2list">>
    IN  IF s1.raised # "none" THEN Raise(s1.raised, <<>>, c)
        ELSE IF s2.raised # "none" THEN Raise(s2.raised, <<>>, c)
        ELSE IF s3.raised # "none" THEN Raise(s3.raised, <<>>, c)
        ELSE IF s4.raised # "none" THEN Raise(s4.raised, <<>>, c)
        ELSE Return(<<s1.ret, s2.ret, s3.ret, s4.ret>>, <<>>, c)

(* -------------------- preprocess_training_image_data ------------------- *)
(* faulty variants: class count taken from the test labels; type check   *)
(* made after the class counter                                           *)
Pipeline(all_data, nc, bs) ==
    IF nc.raised # "none" THEN Raise(nc.raised, nc.warned, nc.called)
    ELSE
    LET d == check_image_dims(all_data[1], all_data[2], all_data[3],
                              all_data[4], nc.ret[1])
        l == ndarray2list(d.ret[1], d.ret[2], d.ret[3], d.ret[4], bs)
        w == nc.warned \o d.warned \o l.warned
        c == nc.called \o d.called \o l.called
    IN  IF l.raised # "none" THEN Raise(l.raised, w, c)
        ELSE Return(l.ret \o nc.ret, w, c)

preprocess_training_image_data_testlabels(images_all, labels_all, images_test_all, labels_test_all, bs) ==
    LET all_data == <<images_all, labels_all, images_test_all, labels_test_all>>
    IN  IF ~ \A i \in 1..4 : isinstance_ndarray(all_data[i])
        THEN Raise("TypeError", <<>>, <<>>)
        ELSE Pipeline(all_data, num_classes_from_labels(labels_test_all), bs)

preprocess_training_image_data_latecheck(images_all, labels_all, images_test_all, labels_test_all, bs) ==
    LET all_data == <<images_all, labels_all, images_test_all, labels_test_all>>
        nc == num_classes_from_labels(labels_all)
    IN  IF nc.raised # "none" THEN Raise(nc.raised, nc.warned, nc.called)
        ELSE IF ~ \A i \in 1..4 : isinstance_ndarray(all_data[i])
        THEN Raise("TypeError", <<>>, nc.called)
        ELSE Pipeline(all_data, nc, bs)

preprocess_training_image_data(images_all, labels_all, images_test_all, labels_test_all, bs) ==
    LET all_data == <<images_all, labels_all, images_test_all, labels_test_all>>
    IN  IF ~ \A i \in 1..4 : isinstance_ndarray(all_data[i])
        THEN Raise("TypeError", <<>>, <<>>)
        ELSE
        LET nc == num_classes_from_labels(labels_all)
        IN  IF nc.raised # "none" THEN Raise(nc.raised, nc.warned, nc.called)
            ELSE
            LET d == check_image_dims(all_data[1], all_data[2], all_data[3],
                                      all_data[4], nc.ret[1])
                l == ndarray2list(d.ret[1], d.ret[2], d.ret[3], d.ret[4], bs)
                w == nc.warned \o d.warned \o l.warned
                c == nc.called \o d.called \o l.called
            IN  IF l.raised # "none" THEN Raise(l.raised, w, c)
                ELSE Return(l.ret \o nc.ret, w, c)

(* ------------------------------- states -------------------------------- *)
NoArray == Arr(1, <<>>)

AsList(a) == [a EXCEPT !.type = "list"]

Fresh ==
    /\ pc = "ready"
    /\ ncalls = 0
    /\ raised = "none"
    /\ ret = <<>>
    /\ warned = <<>>
    /\ called = <<>>

Finish(o) ==
    /\ pc' = "done"
    /\ ncalls' = ncalls + 1
    /\ raised' = o.raised
    /\ ret' = o.ret
    /\ warned' = o.warned
    /\ called' = o.called
    /\ UNCHANGED <<X_train, y_train, X_test, y_test, batch_size, num_classes>>

(* a label array alone, handed to num_classes_from_labels *)
InitClasses ==
    /\ X_train = NoArray /\ X_test = NoArray /\ y_test = NoArray
    /\ \E r \in ImageRanks : \E d \in SeqsUpTo(Vals, MaxLabels) : y_train = Arr(r, d)
    /\ batch_size = 1
    /\ num_classes = 0
    /\ Fresh

(* four arrays of any rank and a class count, handed to check_image_dims *)
InitImageDims ==
    /\ \E r \in Ranks : X_train = Arr(r, Ids(2))
    /\ \E r \in Ranks : y_train = Arr(r, Ids(2))
    /\ \E r \in Ranks : X_test = Arr(r, Ids(1))
    /\ \E r \in Ranks : y_test = Arr(r, Ids(1))
    /\ batch_size = 1
    /\ num_classes \in 1..MaxClasses
    /\ Fresh

(* four arrays of any rank, handed to check_signal_dims *)
InitSignalDims ==
    /\ \E r \in Ranks : X_train = Arr(r, Ids(2))
    /\ \E r \in Ranks : y_train = Arr(r, Ids(2))
    /\ \E r \in Ranks : X_test = Arr(r, Ids(1))
    /\ \E r \in Ranks : y_test = Arr(r, Ids(1))
    /\ batch_size = 1
    /\ num_classes = 0
    /\ Fresh

(* four arrays of any sample count and a batch size, handed to ndarray2list *)
InitBatch ==
    /\ \E n \in 0..MaxN : X_train = Arr(4, Ids(n))
    /\ \E n \in 0..MaxN : y_train = Arr(3, Ids(n))
    /\ \E n \in 0..MaxN : X_test = Arr(4, Ids(n))
    /\ \E n \in 0..MaxN : y_test = Arr(3, Ids(n))
    /\ batch_size \in 1..MaxBatch
    /\ num_classes = 0
    /\ Fresh

(* two aligned image/mask pairs, any of the four values possibly not an    *)
(* ndarray, and a batch size, handed to preprocess_training_image_data     *)
InitPipeline ==
    /\ \E d \in {s \in SeqsUpTo(Vals, MaxLabels) : NonDecreasing(s)} :
       \E rx, ry \in ImageRanks : \E n \in 0..MaxN : \E v \in {0, MaxVal} :
       \E tx, ty \in ImageRanks : \E bad \in SUBSET (1..4) :
          LET a == <<Arr(rx, Ids(Len(d))), Arr(ry, d),
                     Arr(tx, Ids(n)), Arr(ty, Const(n, v))>>
              T(i) == IF i \in bad THEN AsList(a[i]) ELSE a[i]
          IN  /\ X_train = T(1)
              /\ y_train = T(2)
              /\ X_test = T(3)
              /\ y_test = T(4)
    /\ batch_size \in 1..MaxBatch
    /\ num_classes = 0
    /\ Fresh

(* ------------------------------- actions ------------------------------- *)
CallNumClasses ==
    /\ pc = "ready"
    /\ Finish(num_classes_from_labels(y_train))

CallCheckImageDims ==
    /\ pc = "ready"
    /\ Finish(check_image_dims(X_train, y_train, X_test, y_test, num_classes))

(* the arrays check_image_dims returned are handed to it once more *)
RecallCheckImageDims ==
    /\ pc = "done"
    /\ ncalls < MaxCalls
    /\ Finish(check_image_dims(ret[1], ret[2], ret[3], ret[4], num_classes))

CallCheckSignalDims ==
    /\ pc = "ready"
    /\ Finish(check_signal_dims(X_train, y_train, X_test, y_test))

CallNdarray2list ==
    /\ pc = "ready"
    /\ Finish(ndarray2list(X_train, y_train, X_test, y_test, batch_size))

CallPreprocess ==
    /\ pc = "ready"
    /\ Finish(preprocess_training_image_data(X_train, y_train, X_test, y_test,
                                             batch_size))

(* ---------------------------- specifications --------------------------- *)
NextClasses == CallNumClasses

NextImageDims == CallCheckImageDims \/ RecallCheckImageDims

NextSignalDims == CallCheckSignalDims

NextBatch == CallNdarray2list

NextPipeline == CallPreprocess

SpecClasses == InitClasses /\ [][NextClasses]_vars

SpecImageDims == InitImageDims /\ [][NextImageDims]_vars

SpecSignalDims == InitSignalDims /\ [][NextSignalDims]_vars

SpecBatch == InitBatch /\ [][NextBatch]_vars

SpecPipeline == InitPipeline /\ [][NextPipeline]_vars

(* ------------------------------ properties ----------------------------- *)
Done == pc = "done"

LabelSet(a) == {a.data[i] : i \in 1..Len(a.data)}

(* the distinct values are exactly {0, ..., k-1} for k = their number, k >= 1 *)
ValidEncoding(a) ==
    /\ LabelSet(a) # {}
    /\ LabelSet(a) = 0..(Cardinality(LabelSet(a)) - 1)

(* some distinct value exists and they do not start at 0 or leave a gap *)
InvalidEncoding(a) ==
    /\ LabelSet(a) # {}
    /\ LabelSet(a) # 0..(Cardinality(LabelSet(a)) - 1)

ExpectedClasses(a) ==
    IF Cardinality(LabelSet(a)) = 2 THEN 1 ELSE Cardinality(LabelSet(a))

Samples(a) == a.shape[1]

Aligned ==
    /\ Samples(X_train) = Samples(y_train)
    /\ Samples(X_test) = Samples(y_test)

Inputs == <<X_train, y_train, X_test, y_test>>

RECURSIVE ConcatData(_)
ConcatData(chunks) ==
    IF chunks = <<>> THEN <<>>
    ELSE Head(chunks).data \o ConcatData(Tail(chunks))

ExpectedDataRank(a) == IF ndim(a) = 3 THEN 4 ELSE ndim(a)

ExpectedLabelRank(a, nc) == IF nc = 1 /\ ndim(a) = 3 THEN 4 ELSE ndim(a)

(* a with one axis of size 1 put at position 1, the other axes in order *)
WithChannel(a, o) ==
    /\ ndim(o) = ndim(a) + 1
    /\ o.shape[1] = a.shape[1]
    /\ o.shape[2] = 1
    /\ \A i \in 2..ndim(a) : o.shape[i + 1] = a.shape[i]
    /\ o.data = a.data
    /\ o.type = a.type

(* C1: when batch_size exceeds the sample count of an aligned pair,        *)
(* ndarray2list returns normally and that pair's two sequences are empty.  *)
C1_EmptyWhenBatchTooLarge ==
    (Done /\ Aligned
       /\ (batch_size > Samples(X_train) \/ batch_size > Samples(X_test)))
    => /\ raised = "none"
       /\ batch_size > Samples(X_train) => (ret[1] = <<>> /\ ret[2] = <<>>)
       /\ batch_size > Samples(X_test) => (ret[3] = <<>> /\ ret[4] = <<>>)

(* C2: labels whose distinct values are exactly {0..k-1}, k >= 1, give the *)
(* class count k, except that k = 2 gives 1.                               *)
C2_ClassCount ==
    (Done /\ ValidEncoding(y_train))
    => /\ raised = "none"
       /\ ret = <<ExpectedClasses(y_train)>>
       /\ Cardinality(LabelSet(y_train)) = 2 => ret = <<1>>
       /\ Cardinality(LabelSet(y_train)) # 2
            => ret = <<Cardinality(LabelSet(y_train))>>

C2_Witness ==
    /\ Done
    /\ LabelSet(y_train) = {0, 1}
    /\ Len(y_train.data) = 3
    /\ ret = <<1>>

(* C3: labels whose distinct values do not start at 0 or are not           *)
(* consecutive make num_classes_from_labels raise AssertionError and       *)
(* return nothing.                                                         *)
C3_InvalidEncodingRaises ==
    (Done /\ InvalidEncoding(y_train))
    => /\ raised = "AssertionError"
       /\ ret = <<>>

C3_Witness ==
    /\ Done
    /\ LabelSet(y_train) = {1, 2}
    /\ raised = "AssertionError"

(* C4: for aligned pairs and a positive batch_size, ndarray2list returns,  *)
(* for each pair, two sequences of floor(n / batch_size) chunks, each      *)
(* chunk of exactly batch_size samples.                                    *)
C4_ChunkCountAndLength ==
    (Done /\ Aligned)
    => /\ raised = "none"
       /\ Len(ret[1]) = Samples(X_train) \div batch_size
       /\ Len(ret[2]) = Len(ret[1])
       /\ Len(ret[3]) = Samples(X_test) \div batch_size
       /\ Len(ret[4]) = Len(ret[3])
       /\ \A q \in 1..4 : \A j \in 1..Len(ret[q]) :
             /\ Samples(ret[q][j]) = batch_size
             /\ Len(ret[q][j].data) = batch_size

(* C5: for aligned pairs, each sequence ndarray2list returns, its chunks   *)
(* concatenated in order, is the first floor(n / batch_size) * batch_size  *)
(* samples of its input in the original order, and the j-th data chunk     *)
(* holds the samples of the j-th label chunk.                              *)
C5_OrderPreserved ==
    (Done /\ Aligned /\ raised = "none")
    => /\ \A q \in 1..4 :
             ConcatData(ret[q]) =
                SubSeq(Inputs[q].data, 1,
                       (Samples(Inputs[q]) \div batch_size) * batch_size)
       /\ Len(ret[1]) = Len(ret[2])
       /\ Len(ret[3]) = Len(ret[4])
       /\ \A j \in 1..Len(ret[1]) : ret[1][j].data = ret[2][j].data
       /\ \A j \in 1..Len(ret[3]) : ret[3][j].data = ret[4][j].data

C5_Witness ==
    /\ Done /\ Aligned /\ raised = "none"
    /\ Samples(X_train) = 4
    /\ Samples(X_test) = 3
    /\ batch_size = 2
    /\ Len(ret[1]) = 2 /\ Len(ret[2]) = 2
    /\ ret[1][2].data = <<3, 4>> /\ ret[2][2].data = <<3, 4>>
    /\ Len(ret[4]) = 1
    /\ ret[4][1].data = <<1, 2>>

(* C6: check_image_dims makes a data array rank 4 exactly when its rank is *)
(* 3, a label array rank 4 exactly when the class count is 1 and its rank  *)
(* is 3, and returns every other array as it was.                          *)
C6_ImageRanks ==
    (Done /\ ncalls = 1)
    => /\ raised = "none"
       /\ ndim(ret[1]) = ExpectedDataRank(X_train)
       /\ ndim(ret[3]) = ExpectedDataRank(X_test)
       /\ ndim(ret[2]) = ExpectedLabelRank(y_train, num_classes)
       /\ ndim(ret[4]) = ExpectedLabelRank(y_test, num_classes)
       /\ \A q \in 1..4 : ndim(ret[q]) = ndim(Inputs[q]) => ret[q] = Inputs[q]
       /\ (ndim(ret[2]) # ndim(y_train))
             <=> (num_classes = 1 /\ ndim(y_train) = 3)
       /\ (ndim(ret[4]) # ndim(y_test))
             <=> (num_classes = 1 /\ ndim(y_test) = 3)

C6_Witness ==
    /\ Done /\ ncalls = 1
    /\ num_classes = 2
    /\ ndim(X_train) = 3 /\ ndim(y_train) = 3
    /\ ndim(X_test) = 4 /\ ndim(y_test) = 3
    /\ ndim(ret[1]) = 4 /\ ndim(ret[2]) = 3
    /\ ndim(ret[3]) = 4 /\ ndim(ret[4]) = 3

(* C7: check_signal_dims picks its rule from the two train ranks alone:    *)
(* data rank greater - data arrays of rank 3 and label arrays of rank 2    *)
(* gain an axis; smaller - data arrays of rank 2 and label arrays of rank  *)
(* 3 gain an axis; equal - the four arrays are returned unchanged.         *)
C7_SignalRanks ==
    Done
    => LET gt == ndim(X_train) > ndim(y_train)
           lt == ndim(X_train) < ndim(y_train)
           Gains(q) ==
               \/ gt /\ q \in {1, 3} /\ ndim(Inputs[q]) = 3
               \/ gt /\ q \in {2, 4} /\ ndim(Inputs[q]) = 2
               \/ lt /\ q \in {1, 3} /\ ndim(Inputs[q]) = 2
               \/ lt /\ q \in {2, 4} /\ ndim(Inputs[q]) = 3
       IN  /\ raised = "none"
           /\ \A q \in 1..4 :
                 IF Gains(q) THEN WithChannel(Inputs[q], ret[q])
                 ELSE ret[q] = Inputs[q]
           /\ (~ gt /\ ~ lt) => ret = Inputs

C7_Witness ==
    /\ Done
    /\ ndim(X_train) = 3 /\ ndim(y_train) = 3
    /\ ndim(X_test) = 3 /\ ndim(y_test) = 2
    /\ ret = Inputs

(* C8: with four ndarrays, validly encoded training labels and a batch     *)
(* size no larger than either sample count, the pipeline returns the class *)
(* count of the training labels alone and the batches of the rank-         *)
(* normalized arrays: rank-3 images are rank 4 in every chunk, rank-3      *)
(* masks are rank 4 when the class count is 1 and stay rank 3 otherwise.   *)
C8_Pipeline ==
    (/\ Done
     /\ \A q \in 1..4 : isinstance_ndarray(Inputs[q])
     /\ ValidEncoding(y_train)
     /\ batch_size <= Samples(X_train)
     /\ batch_size <= Samples(X_test))
    => /\ raised = "none"
       /\ Len(ret) = 5
       /\ ret[5] = ExpectedClasses(y_train)
       /\ SubSeq(ret, 1, 4) =
            LET d == check_image_dims(X_train, y_train, X_test, y_test,
                                      ExpectedClasses(y_train)).ret
            IN  ndarray2list(d[1], d[2], d[3], d[4], batch_size).ret
       /\ \A q \in 1..4 :
            /\ Len(ret[q]) = Samples(Inputs[q]) \div batch_size
            /\ \A j \in 1..Len(ret[q]) :
                 /\ Samples(ret[q][j]) = batch_size
                 /\ ndim(ret[q][j]) =
                      IF q \in {1, 3} THEN ExpectedDataRank(Inputs[q])
                      ELSE ExpectedLabelRank(Inputs[q], ret[5])

C8_Witness ==
    /\ Done
    /\ raised = "none"
    /\ InvalidEncoding(y_test)
    /\ ndim(X_train) = 3 /\ ndim(y_train) = 3
    /\ ndim(X_test) = 3 /\ ndim(y_test) = 3
    /\ batch_size = 1
    /\ ret[5] = 3
    /\ ndim(ret[1][1]) = 4 /\ ndim(ret[2][1]) = 3
    /\ ndim(ret[3][1]) = 4 /\ ndim(ret[4][1]) = 3

(* C9: an input that is not an ndarray makes the pipeline raise TypeError  *)
(* before the class counter, the rank normalizer or the batcher runs, even *)
(* when the training labels are invalidly encoded; with four ndarrays and  *)
(* invalidly encoded training labels it raises AssertionError after the    *)
(* class counter alone, with no warning issued and nothing returned.       *)
C9_ErrorOrder ==
    Done
    => /\ (\E q \in 1..4 : ~ isinstance_ndarray(Inputs[q]))
            => /\ raised = "TypeError"
               /\ called = <<>>
               /\ warned = <<>>
               /\ ret = <<>>
       /\ ((\A q \in 1..4 : isinstance_ndarray(Inputs[q]))
              /\ InvalidEncoding(y_train))
            => /\ raised = "AssertionError"
               /\ called = <<"num_classes_from_labels">>
               /\ warned = <<>>
               /\ ret = <<>>

C9_Witness ==
    /\ Done
    /\ ~ isinstance_ndarray(X_test)
    /\ InvalidEncoding(y_train)
    /\ ndim(X_train) = 3
    /\ raised = "TypeError"
    /\ called = <<>>

(* C10: check_image_dims turns a rank-3 data array into a rank-4 one with  *)
(* one axis of size 1 at position 1 and the other axes in order, returns a *)
(* rank-4 data array as it is, and called again on what it returned with   *)
(* the same class count returns the same four arrays.                      *)
C10_Idempotent ==
    [][/\ (pc = "ready" /\ pc' = "done")
            => /\ ndim(X_train) = 3 => WithChannel(X_train, ret'[1])
               /\ ndim(X_test) = 3 => WithChannel(X_test, ret'[3])
               /\ ndim(X_train) = 4 => ret'[1] = X_train
               /\ ndim(X_test) = 4 => ret'[3] = X_test
       /\ (pc = "done" /\ ncalls' = ncalls + 1)
            => /\ ret' = ret
               /\ raised' = "none"
               /\ warned' = <<>>]_vars

C10_Witness ==
    /\ Done /\ ncalls = 2
    /\ num_classes = 1
    /\ ndim(X_train) = 3 /\ ndim(y_train) = 3
    /\ ndim(X_test) = 4 /\ ndim(y_test) = 2
    /\ ndim(ret[1]) = 4 /\ ndim(ret[2]) = 4
    /\ ret[1].shape = <<2, 1, 2, 3>>

====
